---- MODULE Spec2Model ----
(***************************************************************************)
(* Model of salesforce_api/services/bulk.py: the Bulk service, the Job     *)
(* lifecycle client and the remote ingest job they drive.                  *)
(*                                                                         *)
(* Every remote request is one atomic step of the calling thread.  The     *)
(* remote platform is a separate process: it moves a job through its       *)
(* lifecycle between the client's requests.                                *)
(***************************************************************************)
EXTENDS Integers, Sequences, FiniteSets, TLC

\* ---------------------------------------------------------------- bounds
MaxEntries == 2     \* longest batch a caller passes
MaxPolls == 3       \* most status checks one poll loop makes
MaxJobs == 1        \* most jobs the remote platform creates

\* ------------------------------------------------------------- constants
Threads == {1, 2}
JobIds == 1..(MaxJobs + 1)
NoJob == 0
\* the object types callers name, and the external id fields upsert is
\* given; Omitted is the keyword argument left out
ObjectNames == {"Account", "Contact"}
\* the object type the callers of Bulk work on; a BulkObject is bound to
\* either name
CallerObjects == {"Account"}
Omitted == "omitted"
ExternalIdFields == {"Ext"}

\* const.BULK_STATE_UPLOAD_COMPLETE, const.BULK_STATES_DONE and
\* const.BULK_STATES_FAIL (salesforce_api/const.py)
BULK_STATE_UPLOAD_COMPLETE == "UploadComplete"
BULK_STATES_DONE == {"JobComplete", "Failed", "Aborted"}
BULK_STATES_FAIL == {"Failed", "Aborted"}

\* states a remote job reports
RemoteStates == {"Open", "UploadComplete", "JobComplete", "Failed", "Aborted"}
\* a job the platform has not created yet, and a job no caller holds the
\* id of any more: no request reaches it, and the model stops tracking it
Absent == "Absent"
Untracked == "Untracked"
\* a job a DELETE has removed
Deleted == "Deleted"

\* error messages the remote reports for a failed job; NoMessage is the
\* missing errorMessage key, which dict.get() turns into None
NoMessage == "None"
ErrorMessages == {"X", "Y"}
\* the error text of a row in failedResults
RowError == "BAD"

\* field values of the records a caller passes; NonScalar is a value the
\* encoder cannot stringify
NonScalar == "NONSCALAR"
Scalars == {"a", "b"}
Values == Scalars \cup {NonScalar}

\* outcomes of one HTTP request as the transport reports them
Ok == "ok"
TransportError == "TransportError"
JSONDecodeError == "JSONDecodeError"
Responses == {Ok, TransportError, JSONDecodeError}

BulkOperations == {"insert", "update", "upsert", "delete"}

\* ------------------------------------------------------------- sequences
RECURSIVE SeqsUpTo(_, _)
SeqsUpTo(S, n) ==
    IF n = 0 THEN {<<>>}
    ELSE LET shorter == SeqsUpTo(S, n - 1)
         IN  shorter \cup {Append(s, x) : s \in {q \in shorter : Len(q) = n - 1}, x \in S}

\* the subsequence of s at the indices in I, in order
RECURSIVE Pick(_, _)
Pick(s, I) ==
    IF s = <<>> THEN <<>>
    ELSE LET rest == Pick(Tail(s), {i - 1 : i \in I \ {1}})
         IN  IF 1 \in I THEN <<Head(s)>> \o rest ELSE rest

Count(s, x) == Cardinality({i \in DOMAIN s : s[i] = x})

Last(s) == s[Len(s)]

\* --------------------------------------------------------------- encoder
\* utils.bulk.FilePreparer(entries).get_csv_string(): a CSV document is the
\* sequence of its rows, a row the sequence of its fields
EncodingFails(entries) ==
    \/ entries = <<>>
    \/ \E i \in DOMAIN entries : entries[i].Id = NonScalar

get_csv_string(entries) ==
    <<<<"Id">>>> \o [i \in DOMAIN entries |-> <<entries[i].Id>>]

\* mutant: the records in reverse order of the ids
delete_entries_reversed(ids) ==
    [i \in DOMAIN ids |-> [Id |-> ids[Len(ids) + 1 - i]]]

\* Bulk.delete: [{'Id': id} for id in ids]
delete_entries(ids) == [i \in DOMAIN ids |-> [Id |-> ids[i]]]

\* Job._prepare_data
prepare_data(entries) == get_csv_string(entries)

\* ------------------------------------------------------------- CSV text
\* the body of a results response is text: a sequence of tokens, each a
\* field, the delimiter or the line ending (COMMA and LF on this wire)
Comma == ","
Newline == "\n"

FirstIndex(s, token) ==
    IF \E i \in DOMAIN s : s[i] = token
    THEN CHOOSE i \in DOMAIN s : s[i] = token /\ \A k \in 1..(i - 1) : s[k] # token
    ELSE Len(s) + 1

\* csv.reader on one line: the fields between the delimiters, an empty
\* string where two delimiters meet or the line ends on one
RECURSIVE csv_fields(_)
csv_fields(line) ==
    LET c == FirstIndex(line, Comma)
        field == IF c = 1 THEN "" ELSE line[1]
    IN  IF c > Len(line)
        THEN <<field>>
        ELSE <<field>> \o csv_fields(SubSeq(line, c + 1, Len(line)))

\* csv.reader(io.StringIO(result)): one row per line, [] for a blank line,
\* no row for an empty text
RECURSIVE csv_reader(_)
csv_reader(text) ==
    IF text = <<>> THEN <<>>
    ELSE LET n == FirstIndex(text, Newline)
             line == SubSeq(text, 1, n - 1)
         IN  <<IF line = <<>> THEN <<>> ELSE csv_fields(line)>> \o
             csv_reader(SubSeq(text, n + 1, Len(text)))

\* ---------------------------------------------------------- result rows
SuccessResultRecord(id) == [type |-> "Success", id |-> id, message |-> NoMessage]
FailResultRecord(id, message) == [type |-> "Fail", id |-> id, message |-> message]

\* the lambdas of get_successful_results and get_failed_results
success_callback(x) == SuccessResultRecord(x[1])

\* mutant: the two columns of a failure row taken the other way round
fail_callback_swapped(x) == FailResultRecord(x[2], x[1])

fail_callback(x) == FailResultRecord(x[1], x[2])

\* mutant: the header row is not dropped
skip_header_keep(rows) == rows

\* csv.reader over the body, next(reader, None) to drop the header row
skip_header(rows) == IF rows = <<>> THEN <<>> ELSE Tail(rows)

parse_successful(rows) ==
    LET body == skip_header(rows) IN [i \in DOMAIN body |-> success_callback(body[i])]

parse_failed(rows) ==
    LET body == skip_header(rows) IN [i \in DOMAIN body |-> fail_callback(body[i])]

\* mutant: only a completed job ends the polling
is_done_complete_only(state) == state = "JobComplete"

\* mutant: UploadComplete taken for a finished job
is_done_early(state) == state \in BULK_STATES_DONE \cup {BULK_STATE_UPLOAD_COMPLETE}

\* Job.is_done: get_state() in const.BULK_STATES_DONE
is_done(state) == state \in BULK_STATES_DONE

\* mutant: only an aborted job counts as failed
is_fail_aborted_only(state) == state = "Aborted"

\* Job.wait, line 124: get_state() in const.BULK_STATES_FAIL
is_fail(state) == state \in BULK_STATES_FAIL

\* ------------------------------------------------------------------ state
VARIABLES
    active,     \* the threads that call into the library
    object_name, \* per thread: the object name its BulkObject is bound to
    pc,         \* per thread: position inside the current call
    call,       \* per thread: the top-level call and its arguments
    job_id,     \* per thread: Job.job_id of the thread's Job instance
    log,        \* per thread: the requests the current call has issued
    observed,   \* per thread: the states the poll loop's is_done() saw
    sleeps,     \* per thread: time.sleep calls of the current wait()
    failed,     \* per thread: the list get_failed_results() returned
    outcome,    \* per thread: how the last call ended
    remote,     \* per job id: the job as the remote platform holds it
    nextId      \* the id the platform gives the next job

vars == <<active, object_name, pc, call, job_id, log, observed, sleeps, failed,
          outcome, remote, nextId>>

\* a call that creates no job names no object and no external id field
NoObject == "none"
NoField == "None"
JobCall(name, args, entries) ==
    [name |-> name, args |-> args, entries |-> entries,
     object |-> NoObject, external_id_field_name |-> NoField]

NoCall == JobCall("none", <<>>, <<>>)
NoOutcome == [kind |-> "none", error |-> "none", value |-> <<>>]
AbsentJob == [state |-> Absent, errorMessage |-> NoMessage, data |-> <<>>,
              failedRows |-> <<>>, successRows |-> <<>>]

Returned(v) == [kind |-> "return", error |-> "none", value |-> v]
Raised(e, msg) == [kind |-> "raise", error |-> e, value |-> msg]

Request(method, job, uri, body, response) ==
    [method |-> method, job |-> job, uri |-> uri, body |-> body,
     response |-> response]

InitThreads(A) ==
    /\ active = A
    /\ object_name = [t \in Threads |-> NoObject]
    /\ pc = [t \in Threads |-> "idle"]
    /\ call = [t \in Threads |-> NoCall]
    /\ job_id = [t \in Threads |-> NoJob]
    /\ log = [t \in Threads |-> <<>>]
    /\ observed = [t \in Threads |-> <<>>]
    /\ sleeps = [t \in Threads |-> 0]
    /\ failed = [t \in Threads |-> <<>>]
    /\ outcome = [t \in Threads |-> NoOutcome]
    /\ remote = [j \in JobIds |-> AbsentJob]
    /\ nextId = 1

Init == InitThreads({1})

\* the id lists and the batches a caller passes: up to MaxEntries scalar
\* values, or one value the encoder cannot stringify; a batch is a list of
\* records with the single field Id
IdLists == SeqsUpTo(Scalars, MaxEntries) \cup {<<NonScalar>>}
Batches == {delete_entries(ids) : ids \in IdLists}

WaitingCalls == BulkOperations \cup {"wait"}
UploadingCalls == BulkOperations \cup {"upload"}

\* --------------------------------------------------------- remote platform
Terminal(state) == state \in {"JobComplete", "Failed", "Aborted"}

\* the job a creation POST makes
NewJob == [AbsentJob EXCEPT !.state = "Open"]

\* the jobs after thread t has let go of the Job instance it held
Release(t) ==
    [j \in JobIds |->
        IF j = job_id[t] /\ \A u \in active \ {t} : job_id[u] # j
        THEN [AbsentJob EXCEPT !.state = Untracked]
        ELSE remote[j]]

\* the job is there to be read: created, and not removed
RemoteExists(j) == remote[j].state \in RemoteStates

\* DELETE jobs/ingest/{id}: the job is gone
RemoteDelete(job) == [AbsentJob EXCEPT !.state = Deleted]

\* PUT jobs/ingest/{id}/batches: only an open job takes a batch
RemoteAcceptsBatch(j) == remote[j].state = "Open"
RemoteStoreBatch(job, csv) == [job EXCEPT !.data = Tail(csv)]

\* PATCH jobs/ingest/{id} {state: s}: a job in a terminal state takes no
\* transition; UploadComplete on an UploadComplete job changes nothing
RemoteAcceptsPatch(j) == remote[j].state \in {"Open", "UploadComplete"}
RemotePatch(job, s) == [job EXCEPT !.state = s]

\* the result sets of a job that completed: every uploaded row is in
\* exactly one of them, the rows at the indices F in failedResults
RemoteComplete(job, F) ==
    [job EXCEPT
        !.state = "JobComplete",
        !.failedRows = <<<<"sf__Id", "sf__Error">>>> \o
            [i \in DOMAIN Pick(job.data, F) |-> <<Pick(job.data, F)[i][1], RowError>>],
        !.successRows = <<<<"sf__Id">>>> \o Pick(job.data, DOMAIN job.data \ F)]

\* the text of a result set: the fields of a row joined by the delimiter,
\* every row ended by the line ending
RECURSIVE RemoteCsvRow(_)
RemoteCsvRow(row) ==
    IF row = <<>> THEN <<>>
    ELSE IF Len(row) = 1 THEN <<row[1]>>
    ELSE <<row[1], Comma>> \o RemoteCsvRow(Tail(row))

RECURSIVE RemoteCsv(_)
RemoteCsv(rows) ==
    IF rows = <<>> THEN <<>>
    ELSE RemoteCsvRow(Head(rows)) \o <<Newline>> \o RemoteCsv(Tail(rows))

\* GET jobs/ingest/{id}/failedResults and .../successfulResults
RemoteResults(job, uri) ==
    RemoteCsv(IF uri = "failedResults" THEN job.failedRows ELSE job.successRows)

\* the platform processes an uploaded job: it completes or fails
RemoteProcess(j) ==
    /\ remote[j].state = "UploadComplete"
    /\ \/ \E F \in SUBSET (DOMAIN remote[j].data) :
            remote' = [remote EXCEPT ![j] = RemoteComplete(@, F)]
       \/ \E m \in ErrorMessages :
            remote' = [remote EXCEPT ![j] = [@ EXCEPT !.state = "Failed",
                                                      !.errorMessage = m]]
    /\ UNCHANGED <<active, object_name, pc, call, job_id, log, observed, sleeps,
                   failed, outcome, nextId>>

\* another client of the platform closes or aborts the job
RemoteOtherClient(j) ==
    /\ \/ /\ remote[j].state = "Open"
          /\ remote' = [remote EXCEPT ![j].state = "UploadComplete"]
       \/ /\ remote[j].state \in {"Open", "UploadComplete"}
          /\ remote' = [remote EXCEPT ![j].state = "Aborted"]
    /\ UNCHANGED <<active, object_name, pc, call, job_id, log, observed, sleeps,
                   failed, outcome, nextId>>

\* ------------------------------------------------------------ the client
\* mutant: one base path, kept where every Job instance reads it
job_path_shared(t) == job_id[CHOOSE u \in active : TRUE]

\* Job.__init__, line 66: the base path of the requests of an instance is
\* made of the id it was constructed with
job_path(t) == job_id[t]

Issue(t, request) == log' = [log EXCEPT ![t] = Append(@, request)]

Finish(t, result) ==
    /\ pc' = [pc EXCEPT ![t] = "done"]
    /\ outcome' = [outcome EXCEPT ![t] = result]

Goto(t, label) ==
    /\ pc' = [pc EXCEPT ![t] = label]
    /\ UNCHANGED outcome

Begin(t, c, label) ==
    /\ pc[t] \in {"idle", "done"}
    /\ call' = [call EXCEPT ![t] = c]
    /\ pc' = [pc EXCEPT ![t] = label]
    /\ log' = [log EXCEPT ![t] = <<>>]
    /\ observed' = [observed EXCEPT ![t] = <<>>]
    /\ sleeps' = [sleeps EXCEPT ![t] = 0]
    /\ failed' = [failed EXCEPT ![t] = <<>>]
    /\ outcome' = [outcome EXCEPT ![t] = NoOutcome]
    /\ UNCHANGED <<active, object_name, job_id, remote, nextId>>

\* Bulk.upsert, line 22: external_id_field_name: str = 'Id'
upsert_default(external_id_field_name) ==
    IF external_id_field_name = Omitted THEN "Id" ELSE external_id_field_name

\* Bulk.insert, Bulk.update, Bulk.upsert, lines 16-23: the arguments
\* _execute_operation gets; only upsert passes an external id field, and
\* line 31 defaults it to None
bulk(op, object, entries, external_id_field_name) ==
    [name |-> op, args |-> entries, entries |-> entries, object |-> object,
     external_id_field_name |-> IF op = "upsert"
                                THEN upsert_default(external_id_field_name)
                                ELSE NoField]

\* Bulk.delete, lines 28-29
bulk_delete(object, ids) ==
    [name |-> "delete", args |-> ids, entries |-> delete_entries(ids),
     object |-> object, external_id_field_name |-> NoField]

\* Bulk.insert / update / upsert called with the object name given
BulkOn(t, object) ==
    /\ nextId <= MaxJobs
    /\ \E op \in {"insert", "update", "upsert"}, entries \in Batches,
          ext \in {Omitted} \cup ExternalIdFields :
          /\ op # "upsert" => ext = Omitted
          /\ Begin(t, bulk(op, object, entries, ext), "create")

\* Bulk.delete called with the object name given
BulkDeleteOn(t, object) ==
    /\ nextId <= MaxJobs
    /\ \E ids \in IdLists : Begin(t, bulk_delete(object, ids), "create")

\* Bulk.insert / update / upsert: _execute_operation(op, object_name, entries)
CallBulk(t) == \E object \in CallerObjects : BulkOn(t, object)

\* Bulk.delete: _execute_operation('delete', object_name, [{'Id': id} ...])
CallBulkDelete(t) == \E object \in CallerObjects : BulkDeleteOn(t, object)

\* mutant: the facade leaves the external id field to _execute_operation
bulk_object_upsert_default_none(external_id_field_name) ==
    IF external_id_field_name = Omitted THEN NoField ELSE external_id_field_name

\* BulkObject.upsert, line 62: external_id_field_name='Id'
bulk_object_upsert_default(external_id_field_name) ==
    IF external_id_field_name = Omitted THEN "Id" ELSE external_id_field_name

\* BulkObject.insert / update / upsert, lines 53-63: the call on
\* self.bulk_service with self.object_name put first
CallBulkObject(t) ==
    /\ object_name[t] # NoObject
    /\ nextId <= MaxJobs
    /\ \E op \in {"insert", "update", "upsert"}, entries \in Batches,
          ext \in {Omitted} \cup ExternalIdFields :
          /\ op # "upsert" => ext = Omitted
          /\ Begin(t, bulk(op, object_name[t], entries,
                           IF op = "upsert" THEN bulk_object_upsert_default(ext)
                           ELSE ext), "create")

\* BulkObject.delete, lines 56-57
CallBulkObjectDelete(t) ==
    /\ object_name[t] # NoObject
    /\ nextId <= MaxJobs
    /\ \E ids \in IdLists : Begin(t, bulk_delete(object_name[t], ids), "create")

\* Bulk._create_job called on its own, to drive the Job by hand
CallCreateJob(t) ==
    /\ nextId <= MaxJobs
    /\ Begin(t, JobCall("_create_job", <<>>, <<>>), "create")

\* Job.upload(entries)
CallUpload(t) ==
    /\ job_id[t] # NoJob
    /\ \E entries \in Batches :
          Begin(t, JobCall("upload", entries, entries), "prepare")

\* Job.wait(), Job.close(), Job.abort()
CallWait(t) ==
    /\ job_id[t] # NoJob
    /\ Begin(t, JobCall("wait", <<>>, <<>>), "is_done")

CallSetState(t) ==
    /\ job_id[t] # NoJob
    /\ \E name \in {"close", "abort"} :
          Begin(t, JobCall(name, <<>>, <<>>), "set_state")

\* mutant: wait() straight after _create_job, the upload forgotten
after_create_no_upload(name) == IF name = "_create_job" THEN "return" ELSE "is_done"

\* Bulk._execute_operation: upload(entries) follows _create_job, wait()
\* follows upload; called on their own, _create_job and upload return
after_create(name) == IF name = "_create_job" THEN "return" ELSE "prepare"

after_upload(name) == IF name = "upload" THEN "return" ELSE "is_done"

\* Bulk._create_job, lines 37-44: the fields of the body that vary
create_job_body(c) ==
    [operation |-> c.name, object |-> c.object,
     externalIdFieldName |-> c.external_id_field_name]

\* Bulk._create_job: the POST and Job(self.connection, result.get('id'));
\* the platform has created the job unless the transport failed, and the
\* caller holds its id only if the response was parsed
create_job(t) ==
    /\ pc[t] = "create"
    /\ \E r \in Responses :
        /\ Issue(t, Request("POST", NoJob, "", create_job_body(call[t]), r))
        /\ IF r = TransportError
           THEN UNCHANGED <<remote, nextId>>
           ELSE /\ remote' = IF r = Ok
                           THEN [Release(t) EXCEPT ![nextId] = NewJob]
                           ELSE [remote EXCEPT ![nextId].state = Untracked]
                /\ nextId' = nextId + 1
        /\ IF r # Ok
           THEN /\ Finish(t, Raised(r, NoMessage))
                /\ UNCHANGED job_id
           ELSE /\ job_id' = [job_id EXCEPT ![t] = nextId]
                /\ IF after_create(call[t].name) = "return"
                   THEN Finish(t, Returned(<<>>))
                   ELSE Goto(t, after_create(call[t].name))
    /\ UNCHANGED <<active, object_name, call, observed, sleeps, failed>>

\* mutant: the batch is encoded only after the PUT has gone out
upload_prepare_late(t) ==
    /\ pc[t] = "prepare"
    /\ IF EncodingFails(call[t].entries)
       THEN /\ Issue(t, Request("PUT", job_path(t), "batches", <<>>, Ok))
            /\ Finish(t, Raised("EncodingError", NoMessage))
       ELSE /\ Goto(t, "put")
            /\ UNCHANGED log
    /\ UNCHANGED <<active, object_name, call, job_id, observed, sleeps, failed,
                   remote, nextId>>

\* Job.upload, line 79: the argument self._prepare_data(entries) is
\* evaluated before the PUT is sent
upload_prepare(t) ==
    /\ pc[t] = "prepare"
    /\ IF EncodingFails(call[t].entries)
       THEN Finish(t, Raised("EncodingError", NoMessage))
       ELSE Goto(t, "put")
    /\ UNCHANGED <<active, object_name, call, job_id, log, observed, sleeps, failed,
                   remote, nextId>>

\* mutant: no except clause around the PUT
put_swallowed_never(r) == FALSE

\* mutant: except Exception: pass
put_swallowed_all(r) == TRUE

\* Job.upload, lines 82-83: except json.decoder.JSONDecodeError: pass
put_swallowed(r) == r = JSONDecodeError

\* Job.upload, lines 78-83: the PUT; the platform has stored the batch
\* unless the transport failed
upload_put(t) ==
    /\ pc[t] = "put"
    /\ \E r \in Responses :
        /\ r # TransportError => RemoteAcceptsBatch(job_path(t))
        /\ Issue(t, Request("PUT", job_path(t), "batches",
                            prepare_data(call[t].entries), r))
        /\ IF r = TransportError
           THEN UNCHANGED remote
           ELSE remote' = [remote EXCEPT ![job_path(t)] =
                        RemoteStoreBatch(@, prepare_data(call[t].entries))]
        /\ IF r # Ok /\ ~put_swallowed(r)
           THEN Finish(t, Raised(r, NoMessage))
           ELSE Goto(t, "patch")
    /\ UNCHANGED <<active, object_name, call, job_id, observed, sleeps, failed, nextId>>

\* Job._set_state(new_state): the PATCH; any error of it propagates
set_state(t, new_state, next) ==
    \E r \in Responses :
        /\ r # TransportError => RemoteAcceptsPatch(job_path(t))
        /\ Issue(t, Request("PATCH", job_path(t), "", new_state, r))
        /\ IF r = TransportError
           THEN UNCHANGED remote
           ELSE remote' = [remote EXCEPT ![job_path(t)] = RemotePatch(@, new_state)]
        /\ IF r # Ok
           THEN Finish(t, Raised(r, NoMessage))
           ELSE next

\* mutant: upload() ends by aborting the job
upload_state_aborted == "Aborted"

\* Job.upload, line 84: the state it passes to _set_state
upload_state == BULK_STATE_UPLOAD_COMPLETE

\* Job.upload, lines 84-85
upload_set_state(t) ==
    /\ pc[t] = "patch"
    /\ set_state(t, upload_state,
                 IF after_upload(call[t].name) = "return"
                 THEN Finish(t, Returned(TRUE))
                 ELSE Goto(t, after_upload(call[t].name)))
    /\ UNCHANGED <<active, object_name, call, job_id, observed, sleeps, failed, nextId>>

\* mutant: close() sends another state than upload() does
close_state_closed == "Closed"

\* Job.close, line 88: the literal it passes to _set_state
close_state == "UploadComplete"

\* Job.abort, line 91
abort_state == "Aborted"

\* Job.close and Job.abort
close_abort(t) ==
    /\ pc[t] = "set_state"
    /\ set_state(t, IF call[t].name = "close" THEN close_state ELSE abort_state,
                 Finish(t, Returned(<<>>)))
    /\ UNCHANGED <<active, object_name, call, job_id, observed, sleeps, failed, nextId>>

\* Job.delete()
CallDelete(t) ==
    /\ job_id[t] # NoJob
    /\ Begin(t, JobCall("delete_job", <<>>, <<>>), "delete")

\* Job.delete, lines 93-94: the DELETE; the platform has removed the job
\* unless the transport failed
delete_job(t) ==
    /\ pc[t] = "delete"
    /\ \E r \in Responses :
        /\ r # TransportError => RemoteExists(job_path(t))
        /\ Issue(t, Request("DELETE", job_path(t), "", <<>>, r))
        /\ IF r = TransportError
           THEN UNCHANGED remote
           ELSE remote' = [remote EXCEPT ![job_path(t)] = RemoteDelete(@)]
        /\ IF r # Ok
           THEN Finish(t, Raised(r, NoMessage))
           ELSE Finish(t, Returned(<<>>))
    /\ UNCHANGED <<active, object_name, call, job_id, observed, sleeps, failed, nextId>>

\* Job.info: the status GET; it yields the job descriptor or raises
info(t, r) ==
    /\ r \in Responses
    /\ r # TransportError => RemoteExists(job_path(t))
    /\ Issue(t, Request("GET", job_path(t), "", <<>>, r))

\* mutant: a failed status check is slept over and tried again
wait_is_done_retry(t, r) == Goto(t, "sleep")

\* Job.wait, line 121: nothing catches an error of is_done()
wait_is_done_error(t, r) == Finish(t, Raised(r, NoMessage))

\* Job.wait, line 121: one evaluation of `while not self.is_done()`
wait_is_done(t) ==
    /\ pc[t] = "is_done"
    /\ Len(observed[t]) < MaxPolls
    /\ \E r \in Responses :
        /\ info(t, r)
        /\ IF r # Ok
           THEN /\ wait_is_done_error(t, r)
                /\ UNCHANGED observed
           ELSE /\ observed' = [observed EXCEPT ![t] =
                                    Append(@, remote[job_path(t)].state)]
                /\ IF is_done(remote[job_path(t)].state)
                   THEN Goto(t, "get_state")
                   ELSE Goto(t, "sleep")
    /\ UNCHANGED <<active, object_name, call, job_id, sleeps, failed, remote, nextId>>

\* mutant: two sleeps between two status checks
wait_sleep_twice(t) ==
    /\ pc[t] = "sleep"
    /\ sleeps' = [sleeps EXCEPT ![t] = @ + 2]
    /\ Goto(t, "is_done")
    /\ UNCHANGED <<active, object_name, call, job_id, log, observed, failed, remote,
                   nextId>>

\* Job.wait, line 122: time.sleep(config.POLL_SLEEP_SECONDS)
wait_sleep(t) ==
    /\ pc[t] = "sleep"
    /\ sleeps' = [sleeps EXCEPT ![t] = @ + 1]
    /\ Goto(t, "is_done")
    /\ UNCHANGED <<active, object_name, call, job_id, log, observed, failed, remote,
                   nextId>>

\* Job.wait, line 124: `if self.get_state() in const.BULK_STATES_FAIL`
wait_get_state(t) ==
    /\ pc[t] = "get_state"
    /\ \E r \in Responses :
        /\ info(t, r)
        /\ IF r # Ok
           THEN Finish(t, Raised(r, NoMessage))
           ELSE IF is_fail(remote[job_path(t)].state)
                THEN Goto(t, "error_message")
                ELSE Goto(t, "failed_results")
    /\ UNCHANGED <<active, object_name, call, job_id, observed, sleeps, failed, remote,
                   nextId>>

\* mutant: the state of the job as the message
error_message_state(job) == job.state

\* Job.wait, line 125: self.info().get('errorMessage')
error_message(job) == job.errorMessage

\* Job.wait, line 125: raise BulkJobFailedError(...)
wait_raise(t) ==
    /\ pc[t] = "error_message"
    /\ \E r \in Responses :
        /\ info(t, r)
        /\ IF r # Ok
           THEN Finish(t, Raised(r, NoMessage))
           ELSE Finish(t, Raised("BulkJobFailedError",
                                 error_message(remote[job_path(t)])))
    /\ UNCHANGED <<active, object_name, call, job_id, observed, sleeps, failed, remote,
                   nextId>>

\* Job._get_results: connection.request('get', ...).text, which parses no
\* JSON and so fails only in the transport
get_results(t, uri, r) ==
    /\ r \in {Ok, TransportError}
    /\ r = Ok => RemoteExists(job_path(t))
    /\ Issue(t, Request("GET", job_path(t), uri, <<>>, r))

\* Job.wait, line 127: self.get_failed_results()
get_failed_results(t) ==
    /\ pc[t] = "failed_results"
    /\ \E r \in Responses :
        /\ get_results(t, "failedResults", r)
        /\ IF r # Ok
           THEN /\ Finish(t, Raised(r, NoMessage))
                /\ UNCHANGED failed
           ELSE /\ failed' = [failed EXCEPT ![t] =
                                  parse_failed(csv_reader(
                                      RemoteResults(remote[job_path(t)], "failedResults")))]
                /\ Goto(t, "successful_results")
    /\ UNCHANGED <<active, object_name, call, job_id, observed, sleeps, remote, nextId>>

\* mutant: the successful results first
wait_result_swapped(failed_results, successful_results) ==
    successful_results \o failed_results

\* the list wait() returns, lines 127-128
wait_result(failed_results, successful_results) ==
    failed_results \o successful_results

\* Job.wait, line 128: + self.get_successful_results(), and the return
get_successful_results(t) ==
    /\ pc[t] = "successful_results"
    /\ \E r \in Responses :
        /\ get_results(t, "successfulResults", r)
        /\ IF r # Ok
           THEN Finish(t, Raised(r, NoMessage))
           ELSE Finish(t, Returned(wait_result(failed[t],
                    parse_successful(csv_reader(
                        RemoteResults(remote[job_path(t)], "successfulResults"))))))
    /\ UNCHANGED <<active, object_name, call, job_id, observed, sleeps, failed, remote,
                   nextId>>

\* Job.info(), Job.get_state() and Job.is_done() called on their own
CallGetState(t) ==
    /\ job_id[t] # NoJob
    /\ \E name \in {"info", "get_state", "is_done"} :
          Begin(t, JobCall(name, <<>>, <<>>), "fetch")

\* mutant: the state as it was when the job was created
get_state_cached(job) == "Open"

\* Job.get_state: self.info().get('state')
get_state(job) == job.state

\* Job.info, Job.get_state, Job.is_done, lines 96-103: one GET and the
\* value computed from its response
fetch_state(t) ==
    /\ pc[t] = "fetch"
    /\ \E r \in Responses :
        /\ info(t, r)
        /\ IF r # Ok
           THEN Finish(t, Raised(r, NoMessage))
           ELSE Finish(t, Returned(
                    CASE call[t].name = "get_state" ->
                            get_state(remote[job_path(t)])
                      [] call[t].name = "is_done" ->
                            is_done(get_state(remote[job_path(t)]))
                      [] OTHER ->
                            [state |-> remote[job_path(t)].state,
                             errorMessage |-> remote[job_path(t)].errorMessage]))
    /\ UNCHANGED <<active, object_name, call, job_id, observed, sleeps, failed, remote,
                   nextId>>

\* Job.get_successful_results() and Job.get_failed_results() called on
\* their own
CallGetResults(t) ==
    /\ job_id[t] # NoJob
    /\ \E name \in {"get_successful_results", "get_failed_results"} :
          Begin(t, JobCall(name, <<>>, <<>>), "results")

\* Job._get_results(uri, callback), lines 105-109
results_call(t) ==
    /\ pc[t] = "results"
    /\ LET uri == IF call[t].name = "get_failed_results"
                  THEN "failedResults" ELSE "successfulResults"
           rows == csv_reader(RemoteResults(remote[job_path(t)], uri))
       IN  \E r \in Responses :
            /\ get_results(t, uri, r)
            /\ IF r # Ok
               THEN Finish(t, Raised(r, NoMessage))
               ELSE Finish(t, Returned(IF uri = "failedResults"
                                       THEN parse_failed(rows)
                                       ELSE parse_successful(rows)))
    /\ UNCHANGED <<active, object_name, call, job_id, observed, sleeps, failed, remote,
                   nextId>>

\* Bulk.select(**kwargs) and Job.get_unprocessed_records()
CallSelect(t) ==
    \E kwargs \in {<<>>, <<"a">>} :
        Begin(t, JobCall("select", kwargs, <<>>),
              "unsupported")

CallGetUnprocessedRecords(t) ==
    /\ job_id[t] # NoJob
    /\ Begin(t, JobCall("get_unprocessed_records", <<>>, <<>>), "unsupported")

\* mutant: an empty list instead of the error
not_implemented_empty(t) ==
    /\ pc[t] = "unsupported"
    /\ Finish(t, Returned(<<>>))
    /\ UNCHANGED <<active, object_name, call, job_id, log, observed, sleeps, failed,
                   remote, nextId>>

\* lines 26 and 118: raise NotImplementedError
not_implemented(t) ==
    /\ pc[t] = "unsupported"
    /\ Finish(t, Raised("NotImplementedError", NoMessage))
    /\ UNCHANGED <<active, object_name, call, job_id, log, observed, sleeps, failed,
                   remote, nextId>>

Next ==
    \/ \E t \in active : CallBulk(t)
    \/ \E t \in active : CallBulkDelete(t)
    \/ \E t \in active : CallCreateJob(t)
    \/ \E t \in active : CallUpload(t)
    \/ \E t \in active : CallWait(t)
    \/ \E t \in active : CallSetState(t)
    \/ \E t \in active : create_job(t)
    \/ \E t \in active : upload_prepare(t)
    \/ \E t \in active : upload_put(t)
    \/ \E t \in active : upload_set_state(t)
    \/ \E t \in active : close_abort(t)
    \/ \E t \in active : wait_is_done(t)
    \/ \E t \in active : wait_sleep(t)
    \/ \E t \in active : wait_get_state(t)
    \/ \E t \in active : wait_raise(t)
    \/ \E t \in active : get_failed_results(t)
    \/ \E t \in active : get_successful_results(t)
    \/ \E t \in active : CallGetState(t)
    \/ \E t \in active : fetch_state(t)
    \/ \E t \in active : CallDelete(t)
    \/ \E t \in active : delete_job(t)
    \/ \E t \in active : CallGetResults(t)
    \/ \E t \in active : results_call(t)
    \/ \E t \in active : CallSelect(t)
    \/ \E t \in active : CallGetUnprocessedRecords(t)
    \/ \E t \in active : not_implemented(t)
    \/ \E j \in JobIds : RemoteProcess(j)
    \/ \E j \in JobIds : RemoteOtherClient(j)

Spec == Init /\ [][Next]_vars

\* ---------------------------------------------------- wait() without end
\* wait() keeps nothing of a status check it has slept over: once the
\* recorded history of the loop is full its oldest check is dropped, so
\* that the loop can go round for ever
RemoveAt(s, i) == SubSeq(s, 1, i - 1) \o SubSeq(s, i + 1, Len(s))

FirstStatusCheck(s) ==
    CHOOSE i \in DOMAIN s :
        /\ s[i].method = "GET" /\ s[i].uri = ""
        /\ \A k \in 1..(i - 1) : ~(s[k].method = "GET" /\ s[k].uri = "")

wait_forget(t) ==
    /\ pc[t] = "is_done"
    /\ Len(observed[t]) = MaxPolls
    /\ observed' = [observed EXCEPT ![t] = Tail(@)]
    /\ log' = [log EXCEPT ![t] = RemoveAt(@, FirstStatusCheck(@))]
    /\ sleeps' = [sleeps EXCEPT ![t] = @ - 1]
    /\ UNCHANGED <<active, object_name, pc, call, job_id, failed, outcome, remote, nextId>>

\* a step of wait() in thread t
wait_step(t) ==
    \/ wait_is_done(t)
    \/ wait_sleep(t)
    \/ wait_forget(t)
    \/ wait_get_state(t)
    \/ wait_raise(t)
    \/ get_failed_results(t)
    \/ get_successful_results(t)

NextLive ==
    \/ \E t \in active : CallCreateJob(t)
    \/ \E t \in active : create_job(t)
    \/ \E t \in active : CallUpload(t)
    \/ \E t \in active : upload_prepare(t)
    \/ \E t \in active : upload_put(t)
    \/ \E t \in active : upload_set_state(t)
    \/ \E t \in active : CallSetState(t)
    \/ \E t \in active : close_abort(t)
    \/ \E t \in active : CallDelete(t)
    \/ \E t \in active : delete_job(t)
    \/ \E t \in active : CallWait(t)
    \/ \E t \in active : wait_is_done(t)
    \/ \E t \in active : wait_sleep(t)
    \/ \E t \in active : wait_forget(t)
    \/ \E t \in active : wait_get_state(t)
    \/ \E t \in active : wait_raise(t)
    \/ \E t \in active : get_failed_results(t)
    \/ \E t \in active : get_successful_results(t)
    \/ \E j \in JobIds : RemoteProcess(j)
    \/ \E j \in JobIds : RemoteOtherClient(j)

\* a thread inside wait() is scheduled again and again; nothing obliges
\* the platform or the caller to act
SpecLive ==
    /\ Init
    /\ [][NextLive]_vars
    /\ \A t \in Threads : WF_vars(wait_step(t))

\* ------------------------------------------------- two Jobs side by side
\* two callers, each with a Job instance of its own that was constructed
\* with the id of a job of its own
InitConc ==
    /\ active = Threads
    /\ object_name = [t \in Threads |-> NoObject]
    /\ pc = [t \in Threads |-> "idle"]
    /\ call = [t \in Threads |-> NoCall]
    /\ job_id = [t \in Threads |-> t]
    /\ log = [t \in Threads |-> <<>>]
    /\ observed = [t \in Threads |-> <<>>]
    /\ sleeps = [t \in Threads |-> 0]
    /\ failed = [t \in Threads |-> <<>>]
    /\ outcome = [t \in Threads |-> NoOutcome]
    /\ remote = [j \in JobIds |-> IF j \in Threads THEN NewJob ELSE AbsentJob]
    /\ nextId = Cardinality(Threads) + 1

\* the batch each caller uploads: one record, not the other caller's
ConcBatch(t) == delete_entries(<<IF t = 1 THEN "a" ELSE "b">>)

\* Job.upload(entries) with the caller's batch
CallUploadOwn(t) ==
    /\ CallUpload(t)
    /\ call'[t].entries = ConcBatch(t)

\* the requests of these runs are answered: the failure of a request ends
\* the call of its own thread, whatever the other thread does
ConcResponses == {Ok}

Answered(t) == Len(log'[t]) > Len(log[t]) => Last(log'[t]).response \in ConcResponses

NextConc ==
    \/ \E t \in active : CallUploadOwn(t)
    \/ \E t \in active : upload_prepare(t)
    \/ \E t \in active : upload_put(t) /\ Answered(t)
    \/ \E t \in active : upload_set_state(t) /\ Answered(t)
    \/ \E t \in active : CallSetState(t)
    \/ \E t \in active : close_abort(t) /\ Answered(t)
    \/ \E t \in active : CallWait(t)
    \/ \E t \in active : wait_is_done(t) /\ Answered(t)
    \/ \E t \in active : wait_sleep(t)
    \/ \E t \in active : wait_get_state(t) /\ Answered(t)
    \/ \E t \in active : wait_raise(t) /\ Answered(t)
    \/ \E t \in active : get_failed_results(t) /\ Answered(t)
    \/ \E t \in active : get_successful_results(t) /\ Answered(t)
    \/ \E t \in active : CallGetResults(t)
    \/ \E t \in active : results_call(t) /\ Answered(t)
    \/ \E j \in JobIds : RemoteProcess(j)

SpecConc == InitConc /\ [][NextConc]_vars

\* ------------------------------------------------ the per-object facade
\* a caller that has constructed a BulkObject for an object name
InitFacade ==
    /\ active = {1}
    /\ object_name \in {f \in [Threads -> ObjectNames \cup {NoObject}] :
                            \A t \in Threads : f[t] = NoObject <=> t # 1}
    /\ pc = [t \in Threads |-> "idle"]
    /\ call = [t \in Threads |-> NoCall]
    /\ job_id = [t \in Threads |-> NoJob]
    /\ log = [t \in Threads |-> <<>>]
    /\ observed = [t \in Threads |-> <<>>]
    /\ sleeps = [t \in Threads |-> 0]
    /\ failed = [t \in Threads |-> <<>>]
    /\ outcome = [t \in Threads |-> NoOutcome]
    /\ remote = [j \in JobIds |-> AbsentJob]
    /\ nextId = 1

NextFacade ==
    \/ \E t \in active : CallBulkObject(t)
    \/ \E t \in active : CallBulkObjectDelete(t)
    \/ \E t \in active : create_job(t) /\ Answered(t)
    \/ \E t \in active : upload_prepare(t)
    \/ \E t \in active : upload_put(t) /\ Answered(t)
    \/ \E t \in active : upload_set_state(t) /\ Answered(t)
    \/ \E t \in active : wait_is_done(t) /\ Answered(t)
    \/ \E t \in active : wait_sleep(t)
    \/ \E t \in active : wait_get_state(t) /\ Answered(t)
    \/ \E t \in active : wait_raise(t) /\ Answered(t)
    \/ \E t \in active : get_failed_results(t) /\ Answered(t)
    \/ \E t \in active : get_successful_results(t) /\ Answered(t)
    \/ \E j \in JobIds : RemoteProcess(j)
    \/ \E j \in JobIds : RemoteOtherClient(j)

SpecFacade == InitFacade /\ [][NextFacade]_vars

TypeOK ==
    /\ active \subseteq Threads
    /\ object_name \in [Threads -> ObjectNames \cup {NoObject}]
    /\ \A t \in Threads :
        /\ job_id[t] \in JobIds \cup {NoJob}
        /\ Len(observed[t]) <= MaxPolls
        /\ outcome[t].kind \in {"none", "return", "raise"}
    /\ \A j \in JobIds : remote[j].state \in RemoteStates \cup {Absent, Untracked, Deleted}
    /\ nextId \in 1..(MaxJobs + 2)

\* ---------------------------------------------------------------- claims
TerminalSet == {"JobComplete", "Failed", "Aborted"}
FailureSet == {"Failed", "Aborted"}
TransportErrors == {TransportError, JSONDecodeError}

Ended(t) == pc[t] = "done"
ReturnedNormally(t) == Ended(t) /\ outcome[t].kind = "return"
InWait(t) == call[t].name \in WaitingCalls
InBulk(t) == call[t].name \in BulkOperations
InUpload(t) == call[t].name \in UploadingCalls

IsStatusCheck(q) == q.method = "GET" /\ q.uri = ""
IsResultsFetch(q) == q.method = "GET" /\ q.uri \in {"failedResults", "successfulResults"}
StatusChecks(t) == {i \in DOMAIN log[t] : IsStatusCheck(log[t][i])}
ResultsFetches(t) == {i \in DOMAIN log[t] : IsResultsFetch(log[t][i])}
Patches(t) == {i \in DOMAIN log[t] : log[t][i].method = "PATCH"}

\* C1: wait() returns normally only after a status check of its loop saw a
\* terminal state, every earlier check of the loop having seen a
\* non-terminal one; the job is then in a terminal state
C1_WaitReturnsOnlyAfterTerminal ==
    \A t \in active :
        (InWait(t) /\ ReturnedNormally(t)) =>
            /\ observed[t] # <<>>
            /\ Last(observed[t]) \in TerminalSet
            /\ \A i \in 1..(Len(observed[t]) - 1) : observed[t][i] \notin TerminalSet
            /\ Cardinality(StatusChecks(t)) >= Len(observed[t])
            /\ remote[job_id[t]].state \in TerminalSet

C1_Witness ==
    \E t \in active :
        /\ call[t].name = "wait"
        /\ ReturnedNormally(t)
        /\ Len(observed[t]) >= 2

\* C2: while the job is Failed, wait() has called no results endpoint, and
\* unless a request of it failed it ends raising BulkJobFailedError with
\* the errorMessage of the job
C2_FailedJobRaisesWithMessage ==
    \A t \in active :
        (InWait(t) /\ job_id[t] # NoJob /\ remote[job_id[t]].state = "Failed") =>
            /\ ResultsFetches(t) = {}
            /\ (Ended(t) /\ observed[t] # <<>>
                    /\ outcome[t].error \notin TransportErrors) =>
                  outcome[t] = Raised("BulkJobFailedError",
                                      remote[job_id[t]].errorMessage)

C2_Witness ==
    \E t \in active :
        /\ InWait(t)
        /\ Ended(t)
        /\ job_id[t] # NoJob
        /\ remote[job_id[t]].state = "Failed"
        /\ outcome[t] = Raised("BulkJobFailedError", "X")
        /\ Len(observed[t]) >= 2

\* the records of the rows of a result set, header row dropped
FailRecordsOf(rows) ==
    [i \in 1..(Len(rows) - 1) |->
        [type |-> "Fail", id |-> rows[i + 1][1], message |-> rows[i + 1][2]]]

SuccessRecordsOf(rows) ==
    [i \in 1..(Len(rows) - 1) |->
        [type |-> "Success", id |-> rows[i + 1][1], message |-> NoMessage]]

\* C3: a wait() that returns has made at least two status checks (four
\* when its loop saw Open, UploadComplete, JobComplete), then fetched
\* failedResults, then successfulResults, and returns the failure records
\* followed by the success records, each in row order
C3_FailedThenSuccessful ==
    \A t \in active :
        (InWait(t) /\ ReturnedNormally(t)) =>
            LET n == Len(log[t]) IN
            /\ Cardinality(StatusChecks(t)) >= 2
            /\ observed[t] = <<"Open", "UploadComplete", "JobComplete">> =>
                  Cardinality(StatusChecks(t)) = 4
            /\ ResultsFetches(t) = {n - 1, n}
            /\ log[t][n - 1].uri = "failedResults"
            /\ log[t][n].uri = "successfulResults"
            /\ \A i \in StatusChecks(t) : i < n - 1
            /\ outcome[t].value =
                  FailRecordsOf(remote[job_id[t]].failedRows) \o
                  SuccessRecordsOf(remote[job_id[t]].successRows)

C3_Witness ==
    \E t \in active :
        /\ call[t].name = "wait"
        /\ ReturnedNormally(t)
        /\ observed[t] = <<"Open", "UploadComplete", "JobComplete">>
        /\ \E i, k \in DOMAIN outcome[t].value :
              /\ outcome[t].value[i].type = "Fail"
              /\ outcome[t].value[k].type = "Success"

\* the step of the bulk protocol a request belongs to
StepOf(q) ==
    CASE q.method = "POST" -> 1
      [] q.method = "PUT" -> 2
      [] q.method = "PATCH" -> 3
      [] IsStatusCheck(q) -> 4
      [] q.method = "GET" /\ q.uri = "failedResults" -> 5
      [] q.method = "GET" /\ q.uri = "successfulResults" -> 6
      [] OTHER -> 0

Completed(q) == q.response = Ok \/ (q.method = "PUT" /\ q.response = JSONDecodeError)

\* C4: a bulk operation issues POST, PUT, PATCH UploadComplete, one or more
\* status GETs, failedResults GET, successfulResults GET in this order,
\* each after the one before has completed, the results only after a
\* terminal state was seen, and returns the combined list
C4_BulkRequestOrder ==
    \A t \in active :
        InBulk(t) =>
            LET n == Len(log[t]) IN
            /\ n >= 1 => StepOf(log[t][1]) = 1
            /\ \A i \in 1..(n - 1) :
                  /\ Completed(log[t][i])
                  /\ \/ StepOf(log[t][i + 1]) = StepOf(log[t][i]) + 1
                     \/ StepOf(log[t][i + 1]) = 4 /\ StepOf(log[t][i]) = 4
            /\ \A i \in 1..n :
                  /\ StepOf(log[t][i]) = 1 =>
                        log[t][i].job = NoJob /\ log[t][i].body.operation = call[t].name
                  /\ StepOf(log[t][i]) > 1 => log[t][i].job = job_id[t]
                  /\ StepOf(log[t][i]) = 2 => log[t][i].uri = "batches"
                  /\ StepOf(log[t][i]) = 3 => log[t][i].body = "UploadComplete"
                  /\ StepOf(log[t][i]) >= 5 =>
                        /\ observed[t] # <<>>
                        /\ Last(observed[t]) \in TerminalSet
            /\ ReturnedNormally(t) =>
                  /\ StepOf(log[t][n]) = 6
                  /\ outcome[t].value = failed[t] \o
                        SuccessRecordsOf(remote[job_id[t]].successRows)

C4_Witness ==
    \E t \in active :
        /\ InBulk(t)
        /\ ReturnedNormally(t)
        /\ Len(observed[t]) >= 2
        /\ Len(outcome[t].value) = 2

\* C5 as stated: an EncodingError is raised before any request at all
C5_EncodingErrorBeforeAnyRequest ==
    \A t \in active :
        (Ended(t) /\ outcome[t].error = "EncodingError") => log[t] = <<>>

\* C5 amended: an EncodingError is raised before any request of upload();
\* a bulk operation has then issued the job-creation POST and nothing else
C5_EncodingErrorBeforeUploadRequests ==
    \A t \in active :
        (Ended(t) /\ outcome[t].error = "EncodingError") =>
            /\ InUpload(t)
            /\ call[t].name = "upload" => log[t] = <<>>
            /\ InBulk(t) => /\ Len(log[t]) = 1
                            /\ log[t][1].method = "POST"
                            /\ log[t][1].response = Ok

C5_Witness ==
    \E t \in active :
        /\ InBulk(t)
        /\ Ended(t)
        /\ outcome[t].error = "EncodingError"
        /\ call[t].entries = <<>>

\* C6: the list a bulk operation returns has one record per uploaded
\* entry: as many records as entries, and each id as often as uploaded
C6_OneRecordPerEntry ==
    \A t \in active :
        (InBulk(t) /\ ReturnedNormally(t)) =>
            LET ids == [i \in DOMAIN outcome[t].value |-> outcome[t].value[i].id]
                sent == [i \in DOMAIN call[t].entries |-> call[t].entries[i].Id]
            IN  /\ Len(ids) = Len(sent)
                /\ \A v \in Values : Count(ids, v) = Count(sent, v)
                /\ \A i \in DOMAIN outcome[t].value :
                      outcome[t].value[i].type \in {"Success", "Fail"}

C6_Witness ==
    \E t \in active :
        /\ InBulk(t)
        /\ ReturnedNormally(t)
        /\ Len(call[t].entries) = 2
        /\ outcome[t].value[1].type = "Fail"
        /\ outcome[t].value[2].type = "Success"

\* C7: BulkJobFailedError is raised only by a wait() whose loop ended on
\* Failed or Aborted, never for a job in JobComplete, and with the
\* errorMessage of the job; a wait() whose loop ended and whose requests
\* all succeeded raises it exactly when the loop ended on Failed or Aborted
C7_FailedErrorOnlyOnFailure ==
    \A t \in active :
        /\ outcome[t].error = "BulkJobFailedError" =>
              /\ InWait(t)
              /\ observed[t] # <<>>
              /\ Last(observed[t]) \in FailureSet
              /\ remote[job_id[t]].state \in FailureSet
              /\ outcome[t].value = remote[job_id[t]].errorMessage
        /\ (InWait(t) /\ Ended(t) /\ observed[t] # <<>>
                /\ Last(observed[t]) \in TerminalSet
                /\ outcome[t].error \notin TransportErrors) =>
              (outcome[t].error = "BulkJobFailedError"
                  <=> Last(observed[t]) \in FailureSet)

C7_Witness ==
    \E t \in active :
        /\ outcome[t].error = "BulkJobFailedError"
        /\ Len(observed[t]) >= 2
        /\ Last(observed[t]) = "Aborted"

\* C8: a status check of wait() that fails is the last request of the
\* call: the call ends raising that error, with no retry, no further
\* status check and no results fetch
C8_PollErrorPropagates ==
    \A t \in active :
        InWait(t) =>
            \A i \in StatusChecks(t) :
                log[t][i].response # Ok =>
                    /\ i = Len(log[t])
                    /\ Ended(t)
                    /\ outcome[t] = Raised(log[t][i].response, NoMessage)
                    /\ ResultsFetches(t) = {}

C8_Witness ==
    \E t \in active :
        /\ InWait(t)
        /\ Ended(t)
        /\ observed[t] # <<>>
        /\ Last(observed[t]) \notin TerminalSet
        /\ Last(log[t]).response = TransportError
        /\ IsStatusCheck(Last(log[t]))

\* C9: after a PUT that ended in a JSON decode error, as after one that
\* succeeded, upload() issues one PATCH to UploadComplete and, when the
\* PATCH succeeds, returns true
C9_ParseErrorSwallowed ==
    \A t \in active :
        InUpload(t) =>
            \A i \in DOMAIN log[t] :
                (log[t][i].method = "PUT"
                    /\ log[t][i].response \in {Ok, JSONDecodeError}) =>
                    /\ Len(log[t]) = i => pc[t] = "patch"
                    /\ Len(log[t]) > i =>
                          /\ log[t][i + 1].method = "PATCH"
                          /\ log[t][i + 1].body = "UploadComplete"
                          /\ log[t][i + 1].job = log[t][i].job
                    /\ Cardinality(Patches(t)) <= 1
                    /\ (call[t].name = "upload" /\ Len(log[t]) > i
                            /\ log[t][i + 1].response = Ok) =>
                          /\ ReturnedNormally(t)
                          /\ outcome[t].value = TRUE
                          /\ Len(log[t]) = i + 1

C9_Witness ==
    \E t \in active :
        /\ call[t].name = "upload"
        /\ ReturnedNormally(t)
        /\ log[t][1].method = "PUT"
        /\ log[t][1].response = JSONDecodeError

\* C10: a PUT that fails in the transport ends upload() with that error
\* and no PATCH; a PATCH that fails, in the transport or in parsing its
\* response, ends upload() with that error
C10_UploadErrorsPropagate ==
    \A t \in active :
        InUpload(t) =>
            \A i \in DOMAIN log[t] :
                /\ (log[t][i].method = "PUT" /\ log[t][i].response = TransportError) =>
                      /\ i = Len(log[t])
                      /\ Ended(t)
                      /\ outcome[t] = Raised(TransportError, NoMessage)
                      /\ Patches(t) = {}
                /\ (log[t][i].method = "PATCH" /\ log[t][i].response # Ok) =>
                      /\ i = Len(log[t])
                      /\ Ended(t)
                      /\ outcome[t] = Raised(log[t][i].response, NoMessage)

C10_Witness ==
    \E t \in active :
        /\ call[t].name = "upload"
        /\ Ended(t)
        /\ outcome[t] = Raised(TransportError, NoMessage)
        /\ Len(log[t]) = 1
        /\ log[t][1].method = "PUT"


\* C13: select() and get_unprocessed_records() issue no request and end
\* raising NotImplementedError, whatever the arguments and the job's state
C13_UnsupportedAlwaysRaises ==
    \A t \in active :
        call[t].name \in {"select", "get_unprocessed_records"} =>
            /\ log[t] = <<>>
            /\ pc[t] \in {"unsupported", "done"}
            /\ Ended(t) => outcome[t] = Raised("NotImplementedError", NoMessage)

C13_Witness ==
    \E t \in active :
        /\ call[t].name = "get_unprocessed_records"
        /\ Ended(t)
        /\ remote[job_id[t]].state = "JobComplete"


\* C14: delete(ids) creates a job of operation delete and uploads the
\* encoding of the records {Id: id}, one per id, in the order of ids
C14_DeleteEncodesIdRecords ==
    \A t \in active :
        call[t].name = "delete" =>
            LET ids == call[t].args
                records == [i \in 1..Len(ids) |-> [Id |-> ids[i]]]
            IN  /\ call[t].entries = records
                /\ \A i \in DOMAIN log[t] :
                      /\ log[t][i].method = "POST" => log[t][i].body.operation = "delete"
                      /\ log[t][i].method = "PUT" =>
                            /\ log[t][i].body = get_csv_string(records)
                            /\ Len(log[t][i].body) = Len(ids) + 1
                            /\ \A k \in 1..Len(ids) :
                                  log[t][i].body[k + 1] = <<ids[k]>>

C14_Witness ==
    \E t \in active :
        /\ call[t].name = "delete"
        /\ call[t].args = <<"b", "a">>
        /\ \E i \in DOMAIN log[t] : log[t][i].method = "PUT"


\* C16: get_state() and is_done() each issue exactly one status GET and
\* return what that GET fetched: the state the job has at the fetch, and
\* whether that state is JobComplete, Failed or Aborted
C16_StateNeverCached ==
    /\ [](\A t \in Threads :
            (call[t].name \in {"get_state", "is_done"} /\ Ended(t)) =>
                /\ Len(log[t]) = 1
                /\ IsStatusCheck(log[t][1])
                /\ log[t][1].job = job_id[t]
                /\ (call[t].name = "is_done" /\ ReturnedNormally(t)
                        /\ outcome[t].value = TRUE) =>
                      remote[job_id[t]].state \in TerminalSet)
    /\ [][\A t \in Threads :
            (pc[t] = "fetch" /\ pc'[t] = "done" /\ outcome'[t].kind = "return") =>
                /\ call[t].name = "get_state" =>
                      outcome'[t].value = remote[job_id[t]].state
                /\ call[t].name = "is_done" =>
                      outcome'[t].value = (remote[job_id[t]].state \in TerminalSet)]_vars

C16_Witness ==
    \E t \in active :
        /\ call[t].name = "is_done"
        /\ ReturnedNormally(t)
        /\ outcome[t].value = TRUE
        /\ remote[job_id[t]].state = "Aborted"


\* C17: get_successful_results() and get_failed_results() issue one GET
\* and return one record per row after the first of the result set as it
\* is at the fetch, in row order: a Success record of column 0, a Fail
\* record of columns 0 and 1; they return the empty list for a set of at
\* most one row
C17_ResultsSkipHeader ==
    /\ [](\A t \in Threads :
            (call[t].name \in {"get_successful_results", "get_failed_results"}
                /\ Ended(t)) =>
                /\ Len(log[t]) = 1
                /\ log[t][1].method = "GET"
                /\ log[t][1].job = job_id[t]
                /\ log[t][1].uri = (IF call[t].name = "get_failed_results"
                                    THEN "failedResults" ELSE "successfulResults"))
    /\ [][\A t \in Threads :
            (pc[t] = "results" /\ pc'[t] = "done" /\ outcome'[t].kind = "return") =>
                LET job == remote[job_id[t]] IN
                /\ call[t].name = "get_failed_results" =>
                      /\ outcome'[t].value = FailRecordsOf(job.failedRows)
                      /\ Len(job.failedRows) <= 1 => outcome'[t].value = <<>>
                /\ call[t].name = "get_successful_results" =>
                      /\ outcome'[t].value = SuccessRecordsOf(job.successRows)
                      /\ Len(job.successRows) <= 1 => outcome'[t].value = <<>>]_vars

C17_Witness ==
    \E t \in active :
        /\ call[t].name = "get_failed_results"
        /\ ReturnedNormally(t)
        /\ Len(outcome[t].value) = 2
        /\ outcome[t].value[1] = [type |-> "Fail", id |-> "b", message |-> "BAD"]
        /\ outcome[t].value[2].id = "a"


\* C18: close() issues one state PATCH for its own job whose value is the
\* value upload() sends, and a close() on a job that is in UploadComplete
\* leaves the remote job as it was
C18_CloseIdempotent ==
    /\ [](\A t \in Threads :
            (call[t].name = "close" /\ Ended(t)) =>
                /\ Len(log[t]) = 1
                /\ log[t][1].method = "PATCH"
                /\ log[t][1].job = job_id[t]
                /\ log[t][1].body = BULK_STATE_UPLOAD_COMPLETE)
    /\ [][\A t \in Threads :
            (pc[t] = "set_state" /\ call[t].name = "close" /\ pc'[t] = "done") =>
                /\ outcome'[t].kind = "return" =>
                      remote'[job_id[t]].state = "UploadComplete"
                /\ remote[job_id[t]].state = "UploadComplete" => remote' = remote]_vars

C18_Witness ==
    \E t \in active :
        /\ call[t].name = "close"
        /\ ReturnedNormally(t)
        /\ remote[job_id[t]].state = "UploadComplete"
        /\ remote[job_id[t]].data # <<>>


\* C19: a bulk operation issues no DELETE and no PATCH to Aborted, takes
\* no step that aborts the job, and the job it created is still there
\* however the operation ended
C19_BulkNeverDestroysJob ==
    /\ [](\A t \in Threads : InBulk(t) =>
            /\ \A i \in DOMAIN log[t] :
                  /\ log[t][i].method # "DELETE"
                  /\ ~(log[t][i].method = "PATCH" /\ log[t][i].body = "Aborted")
            /\ (log[t] # <<>> /\ log[t][1].response = Ok) =>
                  remote[job_id[t]].state \in RemoteStates)
    /\ [][\A t \in Threads :
            (InBulk(t) /\ pc'[t] # pc[t] /\ job_id[t] # NoJob
                /\ remote'[job_id[t]].state = "Aborted") =>
                remote[job_id[t]].state = "Aborted"]_vars

C19_Witness ==
    \E t \in active :
        /\ InBulk(t)
        /\ Ended(t)
        /\ outcome[t].error = "BulkJobFailedError"
        /\ job_id[t] # NoJob
        /\ remote[job_id[t]].state = "Failed"
        /\ Len(log[t]) >= 6


\* the non-terminal states the poll loop of wait() has observed
NonTerminalObservations(t) ==
    {i \in DOMAIN observed[t] : observed[t][i] \notin TerminalSet}

AfterLoop(t) ==
    pc[t] \in {"get_state", "error_message", "failed_results", "successful_results"}

\* C20: wait() has slept once for every non-terminal state its loop has
\* observed, not at all when the first observation is terminal; only the
\* last observation is terminal; it has issued k+2 status GETs when it
\* goes on to the results and when it returns them, k+3 when it raises
\* BulkJobFailedError, k being the number of non-terminal observations
C20_SleepsAndStatusChecks ==
    \A t \in Threads : InWait(t) =>
        LET k == Cardinality(NonTerminalObservations(t)) IN
        /\ (AfterLoop(t) \/ Ended(t) \/ pc[t] = "is_done") => sleeps[t] = k
        /\ pc[t] = "sleep" => sleeps[t] = k - 1
        /\ (observed[t] # <<>> /\ observed[t][1] \in TerminalSet) => sleeps[t] = 0
        /\ \A i \in DOMAIN observed[t] :
              observed[t][i] \in TerminalSet => i = Len(observed[t])
        /\ (AfterLoop(t) \/ ReturnedNormally(t)
                \/ (Ended(t) /\ outcome[t].error = "BulkJobFailedError")) =>
              /\ Len(observed[t]) = k + 1
              /\ Last(observed[t]) \in TerminalSet
        /\ (pc[t] \in {"failed_results", "successful_results"} \/ ReturnedNormally(t)) =>
              Cardinality(StatusChecks(t)) = k + 2
        /\ (Ended(t) /\ outcome[t].error = "BulkJobFailedError") =>
              Cardinality(StatusChecks(t)) = k + 3

C20_Witness ==
    \E t \in active :
        /\ call[t].name = "wait"
        /\ Ended(t)
        /\ outcome[t].error = "BulkJobFailedError"
        /\ Cardinality(NonTerminalObservations(t)) = 2
        /\ sleeps[t] = 2
        /\ Len(log[t]) = 5


\* wait() called on a Job, inside its poll loop
InLoop(t) == call[t].name = "wait" /\ pc[t] \in {"is_done", "sleep"}

\* C11: wait() ends only on a terminal job or with the error of a failed
\* request; once the job is in a terminal state a running wait() ends;
\* a wait() that stays in its loop for ever issues status checks for ever
C11_WaitRunsUntilTerminal ==
    /\ [](\A t \in Threads :
            (call[t].name = "wait" /\ Ended(t)) =>
                \/ outcome[t].error \in TransportErrors
                \/ remote[job_id[t]].state \in TerminalSet)
    /\ \A t \in Threads :
            (call[t].name = "wait" /\ ~Ended(t)
                /\ remote[job_id[t]].state \in TerminalSet) ~> Ended(t)
    /\ \A t \in Threads :
            <>[]InLoop(t) => []<><<wait_is_done(t)>>_vars

C11_Witness ==
    \E t \in active :
        /\ call[t].name = "wait"
        /\ ReturnedNormally(t)
        /\ sleeps[t] = MaxPolls - 1
        /\ Len(observed[t]) = MaxPolls
        /\ remote[job_id[t]].state = "JobComplete"


\* C12: two Jobs driven side by side have different ids; every request of
\* a Job addresses its own id; a step taken for one Job changes neither
\* the other remote job nor anything the other caller holds; and what
\* wait() returns or raises is made of the result sets, or the error
\* message, of its own job
C12_JobsShareNoState ==
    /\ [](\A t, u \in Threads : t # u => job_id[t] # job_id[u])
    /\ [](\A t \in Threads : \A i \in DOMAIN log[t] : log[t][i].job = job_id[t])
    /\ [](\A t \in Threads : (call[t].name = "wait" /\ Ended(t)) =>
            LET job == remote[job_id[t]] IN
            /\ outcome[t].kind = "return" =>
                  /\ job.state = "JobComplete"
                  /\ outcome[t].value = FailRecordsOf(job.failedRows) \o
                                        SuccessRecordsOf(job.successRows)
            /\ outcome[t].kind = "raise" =>
                  /\ job.state \in FailureSet
                  /\ outcome[t] = Raised("BulkJobFailedError", job.errorMessage))
    /\ [][\A t, u \in Threads :
            (t # u /\ pc'[u] # pc[u]) =>
                /\ remote'[job_id[t]] = remote[job_id[t]]
                /\ job_id'[t] = job_id[t]
                /\ pc'[t] = pc[t]
                /\ call'[t] = call[t]
                /\ log'[t] = log[t]
                /\ observed'[t] = observed[t]
                /\ sleeps'[t] = sleeps[t]
                /\ failed'[t] = failed[t]
                /\ outcome'[t] = outcome[t]]_vars

C12_Witness ==
    /\ call[1].name = "wait"
    /\ call[2].name = "wait"
    /\ outcome[1] = Returned(<<SuccessResultRecord("a")>>)
    /\ outcome[2] = Returned(<<FailResultRecord("b", RowError)>>)
    /\ job_id[1] # job_id[2]
    /\ Len(log[1]) >= 4
    /\ Len(log[2]) >= 4


\* C15: a call of insert, update, upsert or delete on a BulkObject is the
\* call of the same name on Bulk with the bound object name put first,
\* the same arguments and the same effective external id field, so that
\* all that follows is the run of that Bulk call; the creation request
\* names the bound object; no step changes the bound object name
C15_FacadeAddsNoBehaviour ==
    /\ [][\A t \in Threads :
            /\ CallBulkObject(t) => BulkOn(t, object_name[t])
            /\ CallBulkObjectDelete(t) => BulkDeleteOn(t, object_name[t])]_vars
    /\ [][object_name' = object_name]_vars
    /\ [](\A t \in Threads : (InBulk(t) /\ log[t] # <<>>) =>
            /\ log[t][1].method = "POST"
            /\ log[t][1].body.operation = call[t].name
            /\ log[t][1].body.object = object_name[t]
            /\ log[t][1].body.externalIdFieldName =
                  (IF call[t].name # "upsert" THEN NoField
                   ELSE IF call[t].external_id_field_name = "Ext" THEN "Ext" ELSE "Id"))

C15_Witness ==
    \E t \in active :
        /\ call[t].name = "upsert"
        /\ ReturnedNormally(t)
        /\ object_name[t] = "Contact"
        /\ log[t][1].body = [operation |-> "upsert", object |-> "Contact",
                             externalIdFieldName |-> "Id"]
        /\ Len(outcome[t].value) = MaxEntries

====
